---- MODULE Spec2Model ----
(***************************************************************************)
(* Patient-flow coordination of the clinic application: the Entity Store   *)
(* tables (appointments, queue_entries, notifications), the patient page   *)
(* that joins a queue and evaluates the near-turn threshold, and the       *)
(* doctor page that calls, admits and completes queue entries.             *)
(*                                                                         *)
(* Every store call of web/src/lib/supabase.ts is one atomic step: the     *)
(* handlers of the pages are sequences of awaited store calls, so other    *)
(* pages' steps interleave between them.  Timestamps are calendar days.    *)
(***************************************************************************)
EXTENDS Integers, Sequences, FiniteSets, TLC

\* ---------------------------------------------------------------- bounds
MaxEntries == 2        \* appointments that may be created in a run
MaxShared == 1         \* the same, in runs with several doctor pages open
MaxDay == 2            \* calendar days a run spans
MaxNotifications == 2  \* notification rows that may be created in a run

Doctors == {"D1", "D2"}
Patients == {"P1", "P2"}     \* one patient page per patient
Sessions == {"S1", "S2"}     \* open doctor pages
DEMO_DOCTOR_ID == "D1"       \* the doctor id a doctor page starts with
PredictedMinutes == {5, 15}  \* answers of the prediction endpoint

NULL == 0                    \* SQL NULL of a timestamptz column / no row
NoEntry == [id |-> NULL]     \* null / undefined where a queue entry row may stand

VARIABLES
    day,            \* the current calendar day (clock of client and store)
    appointments,   \* table public.appointments, row id = position
    queue_entries,  \* table public.queue_entries, row id = position
    notifications,  \* table public.notifications, row id = position
    enq,            \* per patient page: the running createAppointmentAndQueue
    pat,            \* per patient page: the running fetchActiveQueue and its React state
    doc,            \* per doctor page: React state and the running handler
    app             \* one browser tab: App state, route, and state of the page shown

vars == <<day, appointments, queue_entries, notifications, enq, pat, doc, app>>

\* ------------------------------------------------------------ the tables
AppointmentStatus == {"scheduled", "waiting", "in_consult", "done", "cancelled"}
QueueStatus == {"waiting", "called", "in_room", "done"}
NotificationType == {"near_turn", "called", "info"}
ActiveStatus == {"waiting", "called", "in_room"}

Ids(table) == 1..Len(table)

\* ------------------------------------------------- store: pure queries
EntriesOfDay(doctorId, startOfDay) ==
    {i \in Ids(queue_entries) :
        /\ queue_entries[i].doctor_id = doctorId
        /\ queue_entries[i].created_at >= startOfDay}

SetMax(S) == CHOOSE m \in S : \A x \in S : x <= m

\* select queue_number ... order by queue_number desc limit 1, then (?? 0) + 1
NextQueueNumber(doctorId, startOfDay) ==
    LET rows == EntriesOfDay(doctorId, startOfDay)
    IN  IF rows = {} THEN 0 + 1
        ELSE SetMax({queue_entries[i].queue_number : i \in rows}) + 1

\* rows of a doctor in an active status
DoctorQueueIds(doctorId) ==
    {i \in Ids(queue_entries) :
        /\ queue_entries[i].doctor_id = doctorId
        /\ queue_entries[i].status \in ActiveStatus}

IsInjective(q) == \A i, j \in DOMAIN q : i # j => q[i] # q[j]

\* the columns of a queue_entries row that the doctor page reads
ShownRow(row) ==
    [id |-> row.id, appointment_id |-> row.appointment_id,
     patient_id |-> row.patient_id, queue_number |-> row.queue_number,
     status |-> row.status]

\* the columns of the row a doctor page handler was started with that the
\* handler reads in its later awaits
CapturedRow(row) ==
    [id |-> row.id, appointment_id |-> row.appointment_id,
     patient_id |-> row.patient_id, queue_number |-> row.queue_number]

\* getDoctorQueue: the active rows ordered by queue_number ascending; rows of
\* equal queue_number come in an order the store does not fix.
GetDoctorQueueResults(doctorId) ==
    LET ids == DoctorQueueIds(doctorId)
        n == Cardinality(ids)
    IN  {[k \in 1..n |-> ShownRow(queue_entries[perm[k]])] :
            perm \in {f \in [1..n -> ids] :
                        /\ IsInjective(f)
                        /\ \A a, b \in 1..n : a < b =>
                              queue_entries[f[a]].queue_number
                                  <= queue_entries[f[b]].queue_number}}

\* the columns of a queue_entries row that the patient page reads
ActiveRow(row) ==
    [id |-> row.id, doctor_id |-> row.doctor_id,
     queue_number |-> row.queue_number, status |-> row.status]

\* getPatientActiveQueue: the latest created active row of the patient (none: NULL)
PatientActiveIds(patientId) ==
    {i \in Ids(queue_entries) :
        /\ queue_entries[i].patient_id = patientId
        /\ queue_entries[i].status \in ActiveStatus}

GetPatientActiveQueueResults(patientId) ==
    LET ids == PatientActiveIds(patientId)
    IN  IF ids = {} THEN {NULL}
        ELSE {i \in ids : \A j \in ids :
                 queue_entries[j].created_at <= queue_entries[i].created_at}

\* getPeopleAhead: the same query as countPeopleAhead sent with head: true, of
\* whose response it reads data (no rows are returned with head: true) and
\* not count; both branches of its return give 0
GetPeopleAhead(entry) ==
    LET count == Cardinality({i \in Ids(queue_entries) :
                     /\ queue_entries[i].doctor_id = entry.doctor_id
                     /\ queue_entries[i].status = "waiting"
                     /\ queue_entries[i].queue_number < entry.queue_number})
        data == NULL
    IN  IF data # NULL THEN 0 ELSE 0

\* a count that leaves out the status filter of countPeopleAhead
CountAnyStatusAhead(entry) ==
    Cardinality({i \in Ids(queue_entries) :
        /\ queue_entries[i].doctor_id = entry.doctor_id
        /\ queue_entries[i].queue_number < entry.queue_number})

\* countPeopleAhead: waiting rows of the same doctor with a smaller queue_number
CountPeopleAhead(entry) ==
    Cardinality({i \in Ids(queue_entries) :
        /\ queue_entries[i].doctor_id = entry.doctor_id
        /\ queue_entries[i].status = "waiting"
        /\ queue_entries[i].queue_number < entry.queue_number})

\* the columns of a notifications row that the click handler reads
ShownNotification(row) == [id |-> row.id, delivered |-> row.delivered]

\* getPatientNotifications: the rows of the patient (the limit of 20 is above
\* the number of rows a run creates)
GetPatientNotifications(patientId) ==
    {ShownNotification(notifications[n]) :
        n \in {m \in Ids(notifications) : notifications[m].patient_id = patientId}}

\* ---------------------------------------------- store: row constructors
NewAppointment(id, patientId, doctorId) ==
    [id |-> id, patient_id |-> patientId, doctor_id |-> doctorId,
     status |-> "waiting", created_at |-> day]

NewQueueEntry(id, appointmentId, patientId, doctorId, queueNumber) ==
    [id |-> id, appointment_id |-> appointmentId, doctor_id |-> doctorId,
     patient_id |-> patientId, queue_number |-> queueNumber, priority |-> 0,
     status |-> "waiting", created_at |-> day, called_at |-> NULL, done_at |-> NULL]

NewNotification(id, patientId, queueEntryId, type) ==
    [id |-> id, patient_id |-> patientId, queue_entry_id |-> queueEntryId,
     type |-> type, delivered |-> FALSE]

\* updateQueueStatus: update queue_entries set status (and called_at / done_at)
\* where id = queueId; the update carries no condition on the current status.
UpdateQueueStatus(queueId, status) ==
    [queue_entries EXCEPT ![queueId] =
        [@ EXCEPT !.status = status,
                  !.called_at = IF status = "called" THEN day ELSE @,
                  !.done_at = IF status = "done" THEN day ELSE @]]

\* updateAppointmentStatus: update appointments set status where id = appointmentId
UpdateAppointmentStatus(appointmentId, status) ==
    [appointments EXCEPT ![appointmentId].status = status]

\* createNotification: insert into notifications (..., delivered: false)
CreateNotification(patientId, queueEntryId, type) ==
    Append(notifications,
           NewNotification(Len(notifications) + 1, patientId, queueEntryId, type))

\* ------------------------------------------------------------- the clock
NextDay ==
    /\ day < MaxDay
    /\ day' = day + 1
    /\ UNCHANGED <<app, appointments, queue_entries, notifications, enq, pat, doc>>

\* --------------------------------------- patient page: joining the queue
EnqIdle == [pc |-> "idle", doctor_id |-> DEMO_DOCTOR_ID, appointment_id |-> NULL,
            queueNumber |-> 0]

\* createAppointmentAndQueue, first await: insert the appointment row
EnqueueInsertAppointment(p, d, cap) ==
    /\ enq[p].pc = "idle"
    /\ Len(appointments) < cap
    /\ appointments' = Append(appointments, NewAppointment(Len(appointments) + 1, p, d))
    /\ enq' = [enq EXCEPT ![p] = [pc |-> "read_max", doctor_id |-> d,
                                  appointment_id |-> Len(appointments) + 1,
                                  queueNumber |-> 0]]
    /\ UNCHANGED <<app, day, queue_entries, notifications, pat, doc>>

\* second await: startOfDay = today 00:00, read the day's largest queue_number
EnqueueReadMax(p) ==
    /\ enq[p].pc = "read_max"
    /\ enq' = [enq EXCEPT ![p].pc = "insert_entry",
                          ![p].queueNumber = NextQueueNumber(enq[p].doctor_id, day)]
    /\ UNCHANGED <<app, day, appointments, queue_entries, notifications, pat, doc>>

\* third await: insert the queue entry with the number computed before
EnqueueInsertEntry(p) ==
    /\ enq[p].pc = "insert_entry"
    /\ queue_entries' = Append(queue_entries,
           NewQueueEntry(Len(queue_entries) + 1, enq[p].appointment_id, p,
                         enq[p].doctor_id, enq[p].queueNumber))
    /\ enq' = [enq EXCEPT ![p] = EnqIdle]
    /\ UNCHANGED <<app, day, appointments, notifications, pat, doc>>

\* a store call of createAppointmentAndQueue returns an error: the function
\* throws, the rows inserted before stay
EnqueueStoreError(p) ==
    /\ enq[p].pc \in {"read_max", "insert_entry"}
    /\ enq' = [enq EXCEPT ![p] = EnqIdle]
    /\ UNCHANGED <<app, day, appointments, queue_entries, notifications, pat, doc>>

\* ------------------------------- patient page: the near-turn evaluation
\* shown: the notification rows last fetched; refetch: a fetchNotifications
\* queued by the click handler
PatIdle ==
    [pc |-> "idle", activeQueue |-> NoEntry, peopleAhead |-> 0,
     shown |-> {}, refetch |-> FALSE]

\* fetchActiveQueue, first await: getPatientActiveQueue, setActiveQueue.  It
\* runs after a join and on every change notice of the patient's rows; the
\* change feed delivers at least once, so it may run at any time.
FetchActiveQueue(p) ==
    /\ pat[p].pc = "idle"
    /\ \E q \in GetPatientActiveQueueResults(p) :
          pat' = IF q = NULL
                 THEN [pat EXCEPT ![p].pc = "idle", ![p].activeQueue = NoEntry]
                 ELSE [pat EXCEPT ![p].pc = "count",
                                  ![p].activeQueue = ActiveRow(queue_entries[q])]
    /\ UNCHANGED <<app, day, appointments, queue_entries, notifications, enq, doc>>

\* the near_turn threshold of fetchActiveQueue
NearTurn(ahead, predicted) == ahead <= 3 \/ predicted <= 10

\* next awaits: countPeopleAhead, predictWait, getDoctorById, then the threshold
FetchCountAhead(p) ==
    /\ pat[p].pc = "count"
    /\ \E predicted \in PredictedMinutes :
          LET ahead == CountPeopleAhead(pat[p].activeQueue)
          IN  pat' = [pat EXCEPT ![p].peopleAhead = ahead,
                                 ![p].pc = IF NearTurn(ahead, predicted)
                                           THEN "notify" ELSE "idle"]
    /\ UNCHANGED <<app, day, appointments, queue_entries, notifications, enq, doc>>

\* last await: createNotification of type near_turn for the entry read before
NotifyNearTurn(p) ==
    /\ pat[p].pc = "notify"
    /\ Len(notifications) < MaxNotifications
    /\ notifications' = CreateNotification(p, pat[p].activeQueue.id, "near_turn")
    /\ pat' = [pat EXCEPT ![p].pc = "idle"]
    /\ UNCHANGED <<app, day, appointments, queue_entries, enq, doc>>

\* a store call of fetchActiveQueue returns an error: the callers swallow it
\* (.catch(() => undefined)), also the one of createNotification
FetchStoreError(p) ==
    /\ pat[p].pc \in {"count", "notify"}
    /\ pat' = [pat EXCEPT ![p].pc = "idle"]
    /\ UNCHANGED <<app, day, appointments, queue_entries, notifications, enq, doc>>

\* --------------------------------------- patient page: the notifications
\* an update that inverts the delivered flag instead of setting it
ToggleNotificationDelivered(id) ==
    [notifications EXCEPT ![id].delivered = ~ @]

\* markNotificationDelivered: update({ delivered: true }).eq('id', id)
MarkNotificationDelivered(id) ==
    [notifications EXCEPT ![id].delivered = TRUE]

\* fetchNotifications: getPatientNotifications, setNotifications; it runs on a
\* change notice of the patient's notifications (the list shown differs from
\* the store) and after a click that marked a row
FetchNotifications(p) ==
    /\ pat[p].refetch \/ pat[p].shown # GetPatientNotifications(p)
    /\ pat' = [pat EXCEPT ![p].shown = GetPatientNotifications(p),
                          ![p].refetch = FALSE]
    /\ UNCHANGED <<app, day, appointments, queue_entries, notifications, enq, doc>>

\* the click handler of a notification of the list shown: if it is shown as
\* not delivered, markNotificationDelivered(n.id), then fetchNotifications
ClickNotification(p, n) ==
    /\ \E row \in pat[p].shown : row.id = n /\ ~ row.delivered
    /\ notifications' = MarkNotificationDelivered(n)
    /\ pat' = [pat EXCEPT ![p].refetch = TRUE]
    /\ UNCHANGED <<app, day, appointments, queue_entries, enq, doc>>

\* getPatientNotifications returns an error after a click: swallowed by the
\* handler's catch (a failing markNotificationDelivered changes nothing)
NotificationStoreError(p) ==
    /\ pat[p].refetch
    /\ pat' = [pat EXCEPT ![p].refetch = FALSE]
    /\ UNCHANGED <<app, day, appointments, queue_entries, notifications, enq, doc>>

\* ------------------------------------------------------- the doctor page
\* subs: the doctor ids of the page's live queue channels; notified: the
\* doctor's rows as of the last change notice the page was sent; loads: the
\* getDoctorQueue responses on their way to the page
DocIdle(doctorId, queue) ==
    [pc |-> "idle", doctorId |-> doctorId, queue |-> queue, target |-> NoEntry,
     subs |-> {doctorId}, notified |-> {}, loads |-> {}]

\* a selection that leaves out the status test of nextWaiting
FirstShown(queue) == IF queue = <<>> THEN NoEntry ELSE queue[1]

WaitingPositions(queue) == {k \in DOMAIN queue : queue[k].status = "waiting"}

\* nextWaiting = queue.find((q) => q.status === 'waiting'); NoEntry when none
NextWaiting(queue) ==
    IF WaitingPositions(queue) = {} THEN NoEntry
    ELSE queue[CHOOSE k \in WaitingPositions(queue) :
                   \A j \in WaitingPositions(queue) : k <= j]

\* reload as run by the mount effect and by the change-feed callback:
\* getDoctorQueue(doctorId), setQueue(list); it runs on a change notice, that
\* is when the list shown differs from the store.  A notice that arrives while
\* a handler of the page runs is taken after it: the handler reads the row it
\* captured, not the list, and ends with its own reload.
ReloadOnNotice(s) ==
    /\ doc[s].pc = "idle"
    /\ doc[s].queue \notin GetDoctorQueueResults(doc[s].doctorId)
    /\ \E list \in GetDoctorQueueResults(doc[s].doctorId) :
          doc' = [doc EXCEPT ![s].queue = list]
    /\ UNCHANGED <<app, day, appointments, queue_entries, notifications, enq, pat>>

\* callNext, first await: updateQueueStatus(nextWaiting.id, 'called')
CallNext(s) ==
    /\ doc[s].pc = "idle"
    /\ NextWaiting(doc[s].queue).id # NULL
    /\ queue_entries' = UpdateQueueStatus(NextWaiting(doc[s].queue).id, "called")
    /\ doc' = [doc EXCEPT ![s].pc = "call_appointment",
                          ![s].target = CapturedRow(NextWaiting(doc[s].queue))]
    /\ UNCHANGED <<app, day, appointments, notifications, enq, pat>>

\* callNext, second await: updateAppointmentStatus(appointment_id, 'in_consult')
CallNextAppointment(s) ==
    /\ doc[s].pc = "call_appointment"
    /\ appointments' = UpdateAppointmentStatus(doc[s].target.appointment_id, "in_consult")
    /\ doc' = [doc EXCEPT ![s].pc = "call_notify"]
    /\ UNCHANGED <<app, day, queue_entries, notifications, enq, pat>>

\* callNext, third await: createNotification of type called
CallNextNotify(s) ==
    /\ doc[s].pc = "call_notify"
    /\ Len(notifications) < MaxNotifications
    /\ notifications' = CreateNotification(doc[s].target.patient_id, doc[s].target.id,
                                           "called")
    /\ doc' = [doc EXCEPT ![s].pc = "reload"]
    /\ UNCHANGED <<app, day, appointments, queue_entries, enq, pat>>

\* a markInRoom that also closes the appointment, as markDone does
MarkInRoomClosingAppointment(s, k) ==
    /\ doc[s].pc = "idle"
    /\ k \in DOMAIN doc[s].queue
    /\ queue_entries' = UpdateQueueStatus(doc[s].queue[k].id, "in_room")
    /\ appointments' = UpdateAppointmentStatus(doc[s].queue[k].appointment_id, "done")
    /\ doc' = [doc EXCEPT ![s].pc = "reload",
                          ![s].target = CapturedRow(doc[s].queue[k])]
    /\ UNCHANGED <<app, day, notifications, enq, pat>>

\* markInRoom(entry) of a row of the list shown: updateQueueStatus(entry.id, 'in_room')
MarkInRoom(s, k) ==
    /\ doc[s].pc = "idle"
    /\ k \in DOMAIN doc[s].queue
    /\ queue_entries' = UpdateQueueStatus(doc[s].queue[k].id, "in_room")
    /\ doc' = [doc EXCEPT ![s].pc = "reload",
                          ![s].target = CapturedRow(doc[s].queue[k])]
    /\ UNCHANGED <<app, day, appointments, notifications, enq, pat>>

\* markDone(entry), first await: updateQueueStatus(entry.id, 'done')
MarkDone(s, k) ==
    /\ doc[s].pc = "idle"
    /\ k \in DOMAIN doc[s].queue
    /\ queue_entries' = UpdateQueueStatus(doc[s].queue[k].id, "done")
    /\ doc' = [doc EXCEPT ![s].pc = "done_appointment",
                          ![s].target = CapturedRow(doc[s].queue[k])]
    /\ UNCHANGED <<app, day, appointments, notifications, enq, pat>>

\* markDone, second await: updateAppointmentStatus(entry.appointment_id, 'done')
MarkDoneAppointment(s) ==
    /\ doc[s].pc = "done_appointment"
    /\ appointments' = UpdateAppointmentStatus(doc[s].target.appointment_id, "done")
    /\ doc' = [doc EXCEPT ![s].pc = "reload"]
    /\ UNCHANGED <<app, day, queue_entries, notifications, enq, pat>>

\* the handlers' last await: reload()
Reload(s) ==
    /\ doc[s].pc = "reload"
    /\ \E list \in GetDoctorQueueResults(doc[s].doctorId) :
          doc' = [doc EXCEPT ![s].pc = "idle", ![s].queue = list,
                             ![s].target = NoEntry]
    /\ UNCHANGED <<app, day, appointments, queue_entries, notifications, enq, pat>>

\* a failure handling that undoes the handler's committed writes: the entry
\* and its appointment are set back to waiting
RevertingStoreError(s) ==
    /\ doc[s].pc \in {"call_appointment", "call_notify", "done_appointment", "reload"}
    /\ doc' = [doc EXCEPT ![s].pc = "idle", ![s].target = NoEntry]
    /\ queue_entries' = [queue_entries EXCEPT ![doc[s].target.id].status = "waiting"]
    /\ appointments' =
          [appointments EXCEPT ![doc[s].target.appointment_id].status = "waiting"]
    /\ UNCHANGED <<app, day, notifications, enq, pat>>

\* an awaited store call of a handler returns an error: the handler throws
\* and the steps after it do not run (a failing first call changes nothing)
DoctorStoreError(s) ==
    /\ doc[s].pc \in {"call_appointment", "call_notify", "done_appointment", "reload"}
    /\ doc' = [doc EXCEPT ![s].pc = "idle", ![s].target = NoEntry]
    /\ UNCHANGED <<app, day, appointments, queue_entries, notifications, enq, pat>>

\* ------------------------------------------------------ the browser tab
Roles == {"patient", "doctor", "admin"}
NoRole == "none"             \* role null: nothing stored under ROLE_KEY
NoPatient == ""              \* patient null: no patient selected on the patient page
Paths == {"/", "/patient", "/doctor", "/admin"}

\* the role a route of App expects
ExpectedRole(path) ==
    CASE path = "/patient" -> "patient"
      [] path = "/doctor" -> "doctor"
      [] path = "/admin" -> "admin"

\* AdminPage state after mount; requests: generateDailyInsights calls of this
\* page instance not yet settled; thrown: the message of the error the last
\* of them was rejected with
AdminIdle ==
    [stats |-> FALSE, loadingStats |-> FALSE, insightLoading |-> FALSE,
     insightText |-> "", error |-> "", requests |-> 0, thrown |-> ""]

\* PatientPage: prediction state, null until a predictWait response is shown
NoPrediction ==
    [patients_ahead |-> -1, predicted_minutes |-> -1,
     confidence_low |-> -1, confidence_high |-> -1]

\* a tab opened on the landing page with an empty localStorage; channels: the
\* live channels of the patient page as <<table, patient id>>; orphans: the
\* generateDailyInsights calls of admin pages already left, not yet settled
AppInit ==
    [role |-> NoRole, demoMode |-> TRUE, storedRole |-> NoRole, storedDemo |-> "",
     path |-> "/", selectedRole |-> "patient", admin |-> AdminIdle,
     patient |-> NoPatient, channels |-> {}, prediction |-> NoPrediction,
     orphans |-> 0]

\* a guard that renders its children whatever the role
NoGuard(expected, currentRole) == "children"

\* RoleGuard: <Navigate to="/" replace /> unless currentRole is the expected one
RoleGuard(expected, currentRole) ==
    IF currentRole # expected THEN "redirect" ELSE "children"

\* the path App ends on when path is routed: a role page is wrapped in
\* RoleGuard in demo mode only
Routed(path, demoMode, role) ==
    IF path = "/" THEN "/"
    ELSE IF demoMode /\ RoleGuard(ExpectedRole(path), role) = "redirect" THEN "/"
    ELSE path

\* LandingPage mounts with selectedRole read from localStorage, else 'patient'
LandingRole(storedRole) == IF storedRole = NoRole THEN "patient" ELSE storedRole

\* the tab showing path after a route change: the page left is unmounted (its
\* state is dropped, its effect cleanups remove its channels; a request it
\* awaits stays in flight)
Mounted(a, path) ==
    [a EXCEPT !.path = path, !.admin = AdminIdle, !.patient = NoPatient,
              !.orphans = @ + a.admin.requests,
              !.channels = {}, !.prediction = NoPrediction,
              !.selectedRole = LandingRole(a.storedRole)]

\* LandingPage: a role button, setSelectedRole(role)
SelectRole(r) ==
    /\ app.path = "/"
    /\ r # app.selectedRole
    /\ app' = [app EXCEPT !.selectedRole = r]
    /\ UNCHANGED <<day, appointments, queue_entries, notifications, enq, pat, doc>>

\* LandingPage: the Demo Mode checkbox, onDemoModeChange
ToggleDemoMode ==
    /\ app.path = "/"
    /\ app' = [app EXCEPT !.demoMode = ~ @]
    /\ UNCHANGED <<day, appointments, queue_entries, notifications, enq, pat, doc>>

\* LandingPage enter: both keys stored, onRoleChange(selectedRole), navigate
\* to the page of the role
Enter ==
    /\ app.path = "/"
    /\ LET r == app.selectedRole
           a == [app EXCEPT !.role = r, !.storedRole = r,
                            !.storedDemo = IF app.demoMode THEN "true" ELSE "false"]
       IN  app' = Mounted(a, Routed("/" \o r, a.demoMode, a.role))
    /\ UNCHANGED <<day, appointments, queue_entries, notifications, enq, pat, doc>>

\* the header link of Layout: <Link to="/">
GoHome ==
    /\ app.path # "/"
    /\ app' = Mounted(app, "/")
    /\ UNCHANGED <<day, appointments, queue_entries, notifications, enq, pat, doc>>

\* the tab loads a url of the app: the document is replaced (its requests are
\* aborted with it), App state is initialised from localStorage and the path
\* is routed
OpenUrl(path) ==
    /\ LET a == [app EXCEPT !.role = app.storedRole,
                            !.demoMode = (app.storedDemo # "false"),
                            !.admin = AdminIdle, !.orphans = 0]
       IN  app' = Mounted(a, Routed(path, a.demoMode, a.role))
    /\ UNCHANGED <<day, appointments, queue_entries, notifications, enq, pat, doc>>

NavigationNext ==
    \/ \E r \in Roles : SelectRole(r)
    \/ ToggleDemoMode
    \/ Enter
    \/ GoHome
    \/ \E path \in Paths : OpenUrl(path)

\* PatientPage: setPatient(found) of searchHn (setPatient(currentPatient) of
\* submitScreening) on a page with no patient yet; the subscription effect
\* opens the two channels of the patient. A page keeps its patient until it
\* is left, where the effect's cleanup removes both channels (Mounted).
SelectPatient(k) ==
    /\ app.path = "/patient"
    /\ app.patient = NoPatient
    /\ app' = [app EXCEPT !.patient = k,
                          !.channels = {<<"queue_entries", k>>, <<"notifications", k>>}]
    /\ UNCHANGED <<day, appointments, queue_entries, notifications, enq, pat, doc>>

\* the change feed sends a notice on the tab's queue channel: its callback
\* runs fetchActiveQueue of the channel's patient
TabQueueNotice(k) ==
    /\ <<"queue_entries", k>> \in app.channels
    /\ FetchActiveQueue(k)

\* the same on the tab's notification channel: fetchNotifications
TabNotificationNotice(k) ==
    /\ <<"notifications", k>> \in app.channels
    /\ FetchNotifications(k)

\* ------------------------------------------------------- specifications
Init ==
    /\ day = 1
    /\ appointments = <<>>
    /\ queue_entries = <<>>
    /\ notifications = <<>>
    /\ enq = [p \in Patients |-> EnqIdle]
    /\ pat = [p \in Patients |-> PatIdle]
    /\ doc = [s \in Sessions |-> DocIdle(DEMO_DOCTOR_ID, <<>>)]
    /\ app = AppInit

EnqueueNext(PS, DS, cap) ==
    \/ \E p \in PS, d \in DS : EnqueueInsertAppointment(p, d, cap)
    \/ \E p \in PS : EnqueueReadMax(p)
    \/ \E p \in PS : EnqueueInsertEntry(p)
    \/ \E p \in PS : EnqueueStoreError(p)

PatientNext(PS) ==
    \/ \E p \in PS : FetchActiveQueue(p)
    \/ \E p \in PS : FetchCountAhead(p)
    \/ \E p \in PS : NotifyNearTurn(p)
    \/ \E p \in PS : FetchStoreError(p)

DoctorNext(SS, cap) ==
    \/ \E s \in SS : ReloadOnNotice(s)
    \/ \E s \in SS : CallNext(s)
    \/ \E s \in SS : CallNextAppointment(s)
    \/ \E s \in SS : CallNextNotify(s)
    \/ \E s \in SS, k \in 1..cap : MarkInRoom(s, k)
    \/ \E s \in SS, k \in 1..cap : MarkDone(s, k)
    \/ \E s \in SS : MarkDoneAppointment(s)
    \/ \E s \in SS : Reload(s)
    \/ \E s \in SS : DoctorStoreError(s)

\* a direct call of updateAppointmentStatus(appointmentId, 'cancelled')
CancelAppointment(a) ==
    /\ a \in Ids(appointments)
    /\ appointments[a].status # "cancelled"
    /\ appointments' = UpdateAppointmentStatus(a, "cancelled")
    /\ UNCHANGED <<app, day, queue_entries, notifications, enq, pat, doc>>

\* concurrent joins of all patients for all doctors, across days
NextEnqueue == NextDay \/ EnqueueNext(Patients, Doctors, MaxEntries)
SpecEnqueue == Init /\ [][NextEnqueue]_vars

\* joins one at a time (one patient page), across days, one doctor page acting
NextSequential ==
    \/ NextDay
    \/ EnqueueNext({"P1"}, Doctors, MaxEntries)
    \/ DoctorNext({"S1"}, MaxEntries)
SpecSequential == Init /\ [][NextSequential]_vars

\* one patient joining the demo doctor's queue, one doctor page acting on it
NextDoctor ==
    \/ EnqueueNext({"P1"}, {DEMO_DOCTOR_ID}, MaxEntries)
    \/ DoctorNext({"S1"}, MaxEntries)
SpecDoctor == Init /\ [][NextDoctor]_vars

\* the same with every doctor page open on the demo doctor's queue
NextDoctors ==
    \/ EnqueueNext({"P1"}, {DEMO_DOCTOR_ID}, MaxShared)
    \/ DoctorNext(Sessions, MaxShared)
SpecDoctors == Init /\ [][NextDoctors]_vars

\* the patient pages joining the demo doctor's queue and evaluating the threshold
NextPatient ==
    \/ EnqueueNext(Patients, {DEMO_DOCTOR_ID}, MaxEntries)
    \/ PatientNext(Patients)
SpecPatient == Init /\ [][NextPatient]_vars

\* one doctor page, and appointments being cancelled through the store API
NextCancel == NextDoctor \/ \E a \in 1..MaxEntries : CancelAppointment(a)
SpecCancel == Init /\ [][NextCancel]_vars

\* ----------------------------------------------------------- properties
NotificationsOf(e, type) ==
    {n \in Ids(notifications) :
        /\ notifications[n].queue_entry_id = e
        /\ notifications[n].type = type}

\* the doctor pages running callNext past its first await for entry e
CallNextInFlight(e) ==
    {s \in Sessions :
        /\ doc[s].pc \in {"call_appointment", "call_notify"}
        /\ doc[s].target.id = e}

\* C1: no two queue entries of one doctor created on one calendar day carry
\* the same queue_number, however the joins interleave.
C1_UniqueQueueNumber ==
    \A i, j \in Ids(queue_entries) :
        (/\ i # j
         /\ queue_entries[i].doctor_id = queue_entries[j].doctor_id
         /\ queue_entries[i].created_at = queue_entries[j].created_at)
        => queue_entries[i].queue_number # queue_entries[j].queue_number

\* C2: of the call-next invocations that run concurrently against one waiting
\* entry at most one gets past updateQueueStatus(entry, 'called'); the others
\* fail there with a conflict and go no further.
C2_SingleCallNextWinner ==
    \A e \in Ids(queue_entries) : Cardinality(CallNextInFlight(e)) <= 1

\* C3: with joins one at a time, the entries of one doctor created on one
\* calendar day carry 1, 2, 3, ... in the order they were assigned, whatever
\* the entries' statuses and whatever earlier days hold.
C3_SequentialNumbering ==
    \A i \in Ids(queue_entries) :
        queue_entries[i].queue_number =
            1 + Cardinality({j \in Ids(queue_entries) :
                    /\ j < i
                    /\ queue_entries[j].doctor_id = queue_entries[i].doctor_id
                    /\ queue_entries[j].created_at = queue_entries[i].created_at})

StatusRank(status) ==
    CASE status = "waiting" -> 0
      [] status = "called" -> 1
      [] status = "in_room" -> 2
      [] status = "done" -> 3

\* C4: no step moves a queue entry from a later status to an earlier one of
\* waiting, called, in_room, done.
C4_StatusNeverRegresses ==
    [][\A i \in Ids(queue_entries) :
          StatusRank(queue_entries'[i].status) >= StatusRank(queue_entries[i].status)]_vars

\* C5: in every state each doctor has at most one entry in called or in_room.
C5_OneActivePatient ==
    \A d \in Doctors :
        Cardinality({i \in Ids(queue_entries) :
            /\ queue_entries[i].doctor_id = d
            /\ queue_entries[i].status \in {"called", "in_room"}}) <= 1

\* C6: no queue entry ever has more than one near_turn notification.
C6_NearTurnAtMostOnce ==
    \A e \in Ids(queue_entries) : Cardinality(NotificationsOf(e, "near_turn")) <= 1

\* C7: an entry never has two called notifications, and once it has been
\* moved to called and no call-next for it is still running it has exactly one.
C7_CalledExactlyOnce ==
    \A e \in Ids(queue_entries) :
        /\ Cardinality(NotificationsOf(e, "called")) <= 1
        /\ (queue_entries[e].called_at # NULL /\ CallNextInFlight(e) = {})
              => Cardinality(NotificationsOf(e, "called")) = 1

\* the transition table of the Appointment State Machine
QueueTransitions ==
    {<<"waiting", "called">>, <<"called", "in_room">>, <<"in_room", "done">>}
AppointmentTransitions ==
    {<<"scheduled", "waiting">>, <<"waiting", "in_consult">>, <<"in_consult", "done">>}
        \cup {<<from, "cancelled">> : from \in {"scheduled", "waiting", "in_consult"}}

\* C8: a step that writes a queue entry or an appointment row applies a
\* transition of the table; any other request leaves both rows as they were.
C8_OnlyTableTransitions ==
    [][/\ \A i \in Ids(queue_entries) :
             queue_entries'[i] # queue_entries[i] =>
                 <<queue_entries[i].status, queue_entries'[i].status>> \in QueueTransitions
       /\ \A a \in Ids(appointments) :
             appointments'[a] # appointments[a] =>
                 <<appointments[a].status, appointments'[a].status>>
                     \in AppointmentTransitions]_vars

EntriesOfAppointment(a) ==
    {i \in Ids(queue_entries) : queue_entries[i].appointment_id = a}

\* C9: once an appointment is cancelled no step changes its row or the row of
\* its queue entry.
C9_CancelledIsTerminal ==
    [][\A a \in Ids(appointments) :
          appointments[a].status = "cancelled" =>
              /\ appointments'[a] = appointments[a]
              /\ \A i \in EntriesOfAppointment(a) : queue_entries'[i] = queue_entries[i]]_vars

SynchronizedPairs ==
    {<<"waiting", "waiting">>, <<"in_consult", "called">>,
     <<"in_consult", "in_room">>, <<"done", "done">>}

\* C10: whenever no doctor page runs a handler, every queue entry and its
\* appointment are in one of the synchronized status pairs.
C10_PairsSynchronized ==
    (\A s \in Sessions : doc[s].pc = "idle") =>
        \A i \in Ids(queue_entries) :
            <<appointments[queue_entries[i].appointment_id].status,
              queue_entries[i].status>> \in SynchronizedPairs

AppointmentRank(status) ==
    CASE status = "scheduled" -> 0
      [] status = "waiting" -> 1
      [] status = "in_consult" -> 2
      [] status = "done" -> 3
      [] status = "cancelled" -> 4

\* C11: no step moves an appointment to an earlier status of scheduled,
\* waiting, in_consult, done (cancelled may follow any of them); in particular
\* a done appointment never becomes in_consult or waiting again.
C11_AppointmentOnlyAdvances ==
    [][\A a \in Ids(appointments) :
          AppointmentRank(appointments'[a].status) >= AppointmentRank(appointments[a].status)]_vars

\* ------------------------------------------------- priority of an entry
\* the values of queue_entries.priority (0 is the column's default)
Priorities == {0, 1}

\* a doctor or admin session updating the priority column of an entry; no
\* page does it, the table's update policy permits it
SetPriority(q, priority) ==
    /\ q \in Ids(queue_entries)
    /\ queue_entries[q].priority # priority
    /\ queue_entries' = [queue_entries EXCEPT ![q].priority = priority]
    /\ UNCHANGED <<app, day, appointments, notifications, enq, pat, doc>>

\* one doctor page, and priorities being set through the store
NextPriority ==
    \/ NextDoctor
    \/ \E q \in 1..MaxEntries, priority \in Priorities : SetPriority(q, priority)
SpecPriority == Init /\ [][NextPriority]_vars

WaitingOf(d) ==
    {i \in Ids(queue_entries) :
        /\ queue_entries[i].doctor_id = d
        /\ queue_entries[i].status = "waiting"}

\* the waiting entries of doctor d of highest priority and, among them, of
\* smallest queue_number
FirstToServe(d) ==
    {i \in WaitingOf(d) :
        \A j \in WaitingOf(d) :
            \/ queue_entries[i].priority > queue_entries[j].priority
            \/ /\ queue_entries[i].priority = queue_entries[j].priority
               /\ queue_entries[i].queue_number <= queue_entries[j].queue_number}

\* C12: the entry a freshly loaded doctor page selects for Call Next is the
\* doctor's waiting entry of highest priority, ties broken by smallest
\* queue_number; with no waiting entry it selects none, and a page that
\* selects none cannot run Call Next.
C12_NextByPriority ==
    /\ \A d \in Doctors : \A list \in GetDoctorQueueResults(d) :
          IF WaitingOf(d) = {}
          THEN NextWaiting(list).id = NULL
          ELSE NextWaiting(list).id \in FirstToServe(d)
    /\ \A s \in Sessions :
          (doc[s].pc = "idle" /\ NextWaiting(doc[s].queue).id = NULL)
              => ~ ENABLED CallNext(s)

\* --------------------------------------------- the store under its callers
MaxStore == 3          \* appointments that may be created in a store-level run

\* the statuses the doctor page passes to updateQueueStatus
RequestedStatus == {"called", "in_room", "done"}

\* updateQueueStatus(q, status) as some doctor page issues it for a row of
\* the list it shows, which may be stale: any entry, any requested status
SetQueueStatus(q, status) ==
    /\ q \in Ids(queue_entries)
    /\ queue_entries' = UpdateQueueStatus(q, status)
    /\ UNCHANGED <<app, day, appointments, notifications, enq, pat, doc>>

\* one patient joining the queues of both doctors, and status updates of
\* any entry
NextStore ==
    \/ EnqueueNext({"P1"}, Doctors, MaxStore)
    \/ \E q \in 1..MaxStore, status \in RequestedStatus : SetQueueStatus(q, status)
SpecStore == Init /\ [][NextStore]_vars

\* the entries numbered below entry e, of any doctor and in any status
NumberedBelow(e) ==
    {i \in Ids(queue_entries) :
        queue_entries[i].queue_number < queue_entries[e].queue_number}

\* C13: countPeopleAhead of an entry is the number of entries numbered below
\* it less those that are not waiting or belong to another doctor: an entry
\* in called, in_room or done and an entry of another doctor never count.
C13_CountsOnlyWaitingOfDoctor ==
    \A e \in Ids(queue_entries) :
        CountPeopleAhead(queue_entries[e]) =
            Cardinality(NumberedBelow(e))
            - Cardinality({i \in NumberedBelow(e) :
                  \/ queue_entries[i].status # "waiting"
                  \/ queue_entries[i].doctor_id # queue_entries[e].doctor_id})

\* an entry with a served entry of its doctor and an entry of the other
\* doctor numbered below it, and nobody counted ahead of it
C13_Witness ==
    \E e, i, j \in Ids(queue_entries) :
        /\ i \in NumberedBelow(e) /\ j \in NumberedBelow(e)
        /\ queue_entries[i].doctor_id = queue_entries[e].doctor_id
        /\ queue_entries[i].status \in {"called", "in_room", "done"}
        /\ queue_entries[j].doctor_id # queue_entries[e].doctor_id
        /\ CountPeopleAhead(queue_entries[e]) = 0

\* ------------------------------------------------ a doctor calling patients
\* one patient joining the demo doctor's queue and the doctor pages, on which
\* only Call Next is pressed
NextCallNext ==
    \/ EnqueueNext({"P1"}, {DEMO_DOCTOR_ID}, MaxEntries)
    \/ \E s \in Sessions : ReloadOnNotice(s)
    \/ \E s \in Sessions : CallNext(s)
    \/ \E s \in Sessions : CallNextAppointment(s)
    \/ \E s \in Sessions : CallNextNotify(s)
    \/ \E s \in Sessions : Reload(s)
    \/ \E s \in Sessions : DoctorStoreError(s)
SpecCallNext == Init /\ [][NextCallNext]_vars

HeadOf(d) ==
    {i \in WaitingOf(d) :
        \A j \in WaitingOf(d) :
            queue_entries[i].queue_number <= queue_entries[j].queue_number}

\* C15: when the waiting entries of a doctor have equal priority and a step
\* moves the head entry (smallest queue_number) to called, countPeopleAhead of
\* every other waiting entry of the doctor becomes one less than it was.
C15_CallingHeadAdvancesAll ==
    [][\A h \in Ids(queue_entries) :
          (/\ h \in HeadOf(queue_entries[h].doctor_id)
           /\ queue_entries'[h].status = "called"
           /\ \A e \in WaitingOf(queue_entries[h].doctor_id) :
                 queue_entries[e].priority = queue_entries[h].priority)
          => \A e \in WaitingOf(queue_entries[h].doctor_id) \ {h} :
                 CountPeopleAhead(queue_entries[e])' = CountPeopleAhead(queue_entries[e]) - 1]_vars

\* ------------------------------------------- notifications being delivered
NotificationNext(PS) ==
    \/ \E p \in PS : FetchNotifications(p)
    \/ \E p \in PS, n \in 1..MaxNotifications : ClickNotification(p, n)
    \/ \E p \in PS : NotificationStoreError(p)

\* one patient joining the demo doctor's queue, the patient page evaluating
\* the threshold and the patient clicking the notifications shown
NextNotify ==
    \/ EnqueueNext({"P1"}, {DEMO_DOCTOR_ID}, MaxEntries)
    \/ PatientNext({"P1"})
    \/ NotificationNext({"P1"})
SpecNotify == Init /\ [][NextNotify]_vars

\* C16: a notification row is created with delivered = false; a step changes
\* an existing row at most by turning delivered from false to true, so the
\* flag is set at most once, never set back, and no other field changes.
C16_DeliveredOnlyOnce ==
    [][/\ Len(notifications') >= Len(notifications)
       /\ \A n \in Ids(notifications') \ Ids(notifications) :
             notifications'[n].delivered = FALSE
       /\ \A n \in Ids(notifications) :
             \/ notifications'[n] = notifications[n]
             \/ /\ notifications[n].delivered = FALSE
                /\ notifications'[n] = [notifications[n] EXCEPT !.delivered = TRUE]]_vars

\* a click has marked a notification delivered while the list shown still has
\* it as not delivered, and another notification is not delivered
C16_Witness ==
    \E p \in Patients, n \in Ids(notifications) :
        /\ notifications[n].delivered
        /\ pat[p].refetch
        /\ [id |-> n, delivered |-> FALSE] \in pat[p].shown
        /\ \E m \in Ids(notifications) : m # n /\ ~ notifications[m].delivered

\* C17: a step that applies to an entry the status it already has (an
\* identical transition request repeated) leaves the row as the first
\* application wrote it: status, called_at and done_at keep their values.
C17_RepeatedRequestNotReapplied ==
    [][\A i \in Ids(queue_entries) :
          queue_entries'[i].status = queue_entries[i].status =>
              /\ queue_entries'[i].called_at = queue_entries[i].called_at
              /\ queue_entries'[i].done_at = queue_entries[i].done_at]_vars

\* C18: when callNext ends at its createNotification (the page leaves that
\* await without a notification having been inserted), the step writes no
\* row: the entry is still called and its appointment still in_consult; and
\* no step ever sets an entry or an appointment back to waiting.
C18_FailedNotifyKeepsTransition ==
    [][/\ \A s \in Sessions :
             (doc[s].pc = "call_notify" /\ doc'[s].pc = "idle") =>
                 /\ queue_entries' = queue_entries
                 /\ appointments' = appointments
                 /\ queue_entries'[doc[s].target.id].status = "called"
                 /\ appointments'[doc[s].target.appointment_id].status = "in_consult"
       /\ \A i \in Ids(queue_entries) :
             queue_entries[i].status # "waiting" => queue_entries'[i].status # "waiting"
       /\ \A a \in Ids(appointments) :
             appointments[a].status # "waiting" => appointments'[a].status # "waiting"]_vars

\* createNotification of a callNext has failed: every page is idle, the entry
\* is called, its appointment in_consult, and it has no called notification
C18_Witness ==
    /\ \A s \in Sessions : doc[s].pc = "idle"
    /\ \E e \in Ids(queue_entries) :
          /\ queue_entries[e].status = "called"
          /\ appointments[queue_entries[e].appointment_id].status = "in_consult"
          /\ NotificationsOf(e, "called") = {}

\* some doctor page can still insert the called notification of entry e: a
\* callNext for e is before its createNotification, or a page's list still
\* selects e for Call Next
CanStillNotifyCalled(e) ==
    \E s \in Sessions :
        \/ doc[s].pc \in {"call_appointment", "call_notify"} /\ doc[s].target.id = e
        \/ NextWaiting(doc[s].queue).id = e

\* C19: a called dispatch that failed is not taken as handled: as long as an
\* entry that was called has no called notification, the system is in a state
\* from which a retry or a later evaluation inserts it.
C19_FailedDispatchStillPending ==
    \A e \in Ids(queue_entries) :
        (queue_entries[e].called_at # NULL /\ NotificationsOf(e, "called") = {})
            => CanStillNotifyCalled(e)

\* C20: an appointment without a queue entry exists only while the
\* createAppointmentAndQueue that inserted it is still running: once the call
\* has returned or failed, no appointment row is left without its entry.
C20_NoAppointmentWithoutEntry ==
    \A a \in Ids(appointments) :
        EntriesOfAppointment(a) = {} =>
            \E p \in Patients : enq[p].pc # "idle" /\ enq[p].appointment_id = a

\* ------------------------------------- the doctor page and the change feed
MaxFeed == 2           \* appointments that may be created in a change-feed run
MaxLoads == 2          \* getDoctorQueue responses that may be on their way to a page

\* the doctor id input left empty
NoDoctor == ""

\* the rows of the publication that match the filter doctor_id=eq.<doctorId>
DoctorRows(doctorId) ==
    {queue_entries[i] : i \in {j \in Ids(queue_entries) :
                                  queue_entries[j].doctor_id = doctorId}}

\* a getDoctorQueue(doctorId) request as the store answers it
DoctorLoads(doctorId) ==
    {[doctorId |-> doctorId, list |-> list] : list \in GetDoctorQueueResults(doctorId)}

\* the change feed sends the page a notice for a channel it holds, the rows of
\* the channel's doctor having changed since the last notice; the callback
\* runs reload(): getDoctorQueue is requested and answered, the response is
\* on its way
FeedNotice(s) ==
    /\ Cardinality(doc[s].loads) < MaxLoads
    /\ \E d \in doc[s].subs :
          /\ DoctorRows(d) # doc[s].notified
          /\ \E load \in DoctorLoads(d) :
                doc' = [doc EXCEPT ![s].notified = DoctorRows(d),
                                   ![s].loads = @ \cup {load}]
    /\ UNCHANGED <<app, day, appointments, queue_entries, notifications, enq, pat>>

\* a response reaches the page: setQueue(list)
LoadArrives(s) ==
    /\ \E load \in doc[s].loads :
          doc' = [doc EXCEPT ![s].queue = load.list, ![s].loads = @ \ {load}]
    /\ UNCHANGED <<app, day, appointments, queue_entries, notifications, enq, pat>>

\* a request fails: reload().catch(() => undefined), the list stays
LoadFails(s) ==
    /\ \E load \in doc[s].loads :
          doc' = [doc EXCEPT ![s].loads = @ \ {load}]
    /\ UNCHANGED <<app, day, appointments, queue_entries, notifications, enq, pat>>

\* a doctor id change that leaves the channel of the old id open
SetDoctorIdKeepingChannel(s, d) ==
    /\ doc[s].pc = "idle"
    /\ d # doc[s].doctorId
    /\ doc' = [doc EXCEPT ![s].doctorId = d, ![s].subs = @ \cup ({d} \ {NoDoctor})]
    /\ UNCHANGED <<app, day, appointments, queue_entries, notifications, enq, pat>>

\* setDoctorId(d) by the input: the subscription effect's cleanup removes the
\* channel of the old id and, unless d is empty, the effect opens the channel
\* of d and the load effect requests getDoctorQueue(d)
SetDoctorId(s, d) ==
    /\ doc[s].pc = "idle"
    /\ d # doc[s].doctorId
    /\ IF d = NoDoctor
       THEN doc' = [doc EXCEPT ![s].doctorId = d, ![s].subs = {}, ![s].notified = {}]
       ELSE /\ Cardinality(doc[s].loads) < MaxLoads
            /\ \E load \in DoctorLoads(d) :
                  doc' = [doc EXCEPT ![s].doctorId = d, ![s].subs = {d},
                                     ![s].notified = DoctorRows(d),
                                     ![s].loads = @ \cup {load}]
    /\ UNCHANGED <<app, day, appointments, queue_entries, notifications, enq, pat>>

\* the doctor page is left: the subscription effect's cleanup removes its
\* channel; a response that arrives later sets state of no page
CloseDoctorPage(s) ==
    /\ doc[s].pc = "idle"
    /\ doc' = [doc EXCEPT ![s].pc = "closed", ![s].subs = {}, ![s].notified = {},
                          ![s].loads = {}]
    /\ UNCHANGED <<app, day, appointments, queue_entries, notifications, enq, pat>>

\* the doctor page is mounted again: doctorId is DEMO_DOCTOR_ID, the load
\* effect requests its queue and the subscription effect opens its channel
OpenDoctorPage(s) ==
    /\ doc[s].pc = "closed"
    /\ \E load \in DoctorLoads(DEMO_DOCTOR_ID) :
          doc' = [doc EXCEPT ![s] =
                    [DocIdle(DEMO_DOCTOR_ID, <<>>) EXCEPT
                        !.notified = DoctorRows(DEMO_DOCTOR_ID), !.loads = {load}]]
    /\ UNCHANGED <<app, day, appointments, queue_entries, notifications, enq, pat>>

\* one patient joining the doctors' queues, entries being called, and a
\* doctor page that follows the change feed and switches doctor
NextFeed ==
    \/ EnqueueNext({"P1"}, Doctors, MaxFeed)
    \/ \E q \in 1..MaxFeed : SetQueueStatus(q, "called")
    \/ FeedNotice("S1")
    \/ LoadArrives("S1")
    \/ LoadFails("S1")
    \/ \E d \in Doctors \cup {NoDoctor} : SetDoctorId("S1", d)
SpecFeed == Init /\ [][NextFeed]_vars

\* the page has no response on its way and no notice outstanding
Quiescent(s) ==
    /\ doc[s].loads = {}
    /\ \A d \in doc[s].subs : DoctorRows(d) = doc[s].notified

\* C21: a doctor page that was sent a notice for every change of its doctor's
\* rows and has no re-fetch left to complete shows the store's current queue
\* of that doctor (so when changes stop, what it shows comes to equal the
\* store).
C21_QuiescentPageShowsStore ==
    \A s \in Sessions :
        (doc[s].doctorId # NoDoctor /\ Quiescent(s))
            => doc[s].queue \in GetDoctorQueueResults(doc[s].doctorId)

\* -------------------------------------------------- channels of the pages
\* one patient joining the doctors' queues; a doctor page that follows the
\* change feed, switches doctor and is left and opened again; a tab on the
\* patient page that selects patients and follows its two channels
NextChannels ==
    \/ \E d \in Doctors : EnqueueInsertAppointment("P1", d, MaxShared)
    \/ EnqueueReadMax("P1")
    \/ EnqueueInsertEntry("P1")
    \/ FeedNotice("S1")
    \/ LoadArrives("S1")
    \/ \E d \in Doctors \cup {NoDoctor} : SetDoctorId("S1", d)
    \/ CloseDoctorPage("S1")
    \/ OpenDoctorPage("S1")
    \/ Enter
    \/ GoHome
    \/ \E k \in Patients : SelectPatient(k)
    \/ \E k \in Patients : TabQueueNotice(k)
    \/ \E k \in Patients : TabNotificationNotice(k)
    \/ \E k \in Patients : FetchCountAhead(k)
    \/ \E k \in Patients : NotifyNearTurn(k)
SpecChannels == Init /\ [][NextChannels]_vars

\* every page holds at most one live channel per table, and only for the key
\* it has selected and while it is shown
LiveChannelsCurrent ==
    /\ \A s \in Sessions :
          /\ Cardinality(doc[s].subs) <= 1
          /\ \A d \in doc[s].subs : d = doc[s].doctorId /\ doc[s].pc # "closed"
    /\ \A table \in {"queue_entries", "notifications"} :
          Cardinality({c \in app.channels : c[1] = table}) <= 1
    /\ \A c \in app.channels : c[2] = app.patient /\ app.path = "/patient"

\* C22: after every step each page holds at most one live channel per table,
\* for its current key only (none once it is left); and a step starts a
\* re-fetch on a notice only for the key the page has selected: a doctor page
\* requests only the queue of its current doctor id, the patient tab fetches
\* only for its current patient.
C22_ChannelsCancelledOnKeyChange ==
    [][/\ LiveChannelsCurrent'
       /\ \A s \in Sessions : \A load \in doc'[s].loads \ doc[s].loads :
             load.doctorId = doc'[s].doctorId
       /\ \A k \in Patients :
             (\/ pat[k].pc = "idle" /\ pat'[k] # pat[k]
              \/ pat'[k].shown # pat[k].shown)
                 => k = app.patient]_vars

\* the doctor page has switched to the other doctor and holds that channel;
\* the tab followed patient P1 and has then selected P2, whose channels it holds
C22_Witness ==
    /\ doc["S1"].doctorId = "D2" /\ doc["S1"].subs = {"D2"}
    /\ doc["S1"].queue # <<>>
    /\ pat["P1"].activeQueue.id # NULL
    /\ app.patient = "P2"
    /\ app.channels = {<<"queue_entries", "P2">>, <<"notifications", "P2">>}

\* ------------------------------------------------- the wait-time predictor
\* The prediction service answers POST /predict-wait; predictWait of the web
\* client only forwards the payload and returns the response body. The
\* service is modelled from its specification: a pure function of
\* patients_ahead and the average service minutes of the doctor or clinic.
MaxAhead == 11                \* patients_ahead of a request: 0..MaxAhead
MaxAverage == 10              \* average service minutes: 1..MaxAverage
SpreadPercent == 20           \* the proportional spread of the band

Max(a, b) == IF a >= b THEN a ELSE b

\* a predictor with no floor: the point estimate alone
PredictWaitNoFloor(patients_ahead, average) ==
    LET point == patients_ahead * average
        spread == (point * SpreadPercent) \div 100
    IN  [patients_ahead |-> patients_ahead, predicted_minutes |-> point,
         confidence_low |-> Max(0, point - spread),
         confidence_high |-> point + spread]

\* point estimate patients_ahead x average, with nobody ahead the
\* consultation in progress (one average service time); band = estimate
\* -/+ the spread, floored at zero
PredictWait(patients_ahead, average) ==
    LET point == IF patients_ahead = 0 THEN average
                 ELSE patients_ahead * average
        spread == (point * SpreadPercent) \div 100
    IN  [patients_ahead |-> patients_ahead, predicted_minutes |-> point,
         confidence_low |-> Max(0, point - spread),
         confidence_high |-> point + spread]

\* predictWait(payload) resolves and the page keeps the response
\* (setPrediction)
PredictWaitResponse(patients_ahead, average) ==
    /\ app' = [app EXCEPT !.prediction = PredictWait(patients_ahead, average)]
    /\ UNCHANGED <<day, appointments, queue_entries, notifications, enq, pat, doc>>

NextPredict ==
    \E patients_ahead \in 0..MaxAhead, average \in 1..MaxAverage :
        PredictWaitResponse(patients_ahead, average)
SpecPredict == Init /\ [][NextPredict]_vars

\* C23: every prediction received for patients_ahead >= 0 has
\* 0 <= confidence_low <= predicted_minutes <= confidence_high, and for
\* patients_ahead = 0 its predicted_minutes is positive.
C23_BandOrderedAndFloored ==
    app.prediction # NoPrediction =>
        /\ 0 <= app.prediction.confidence_low
        /\ app.prediction.confidence_low <= app.prediction.predicted_minutes
        /\ app.prediction.predicted_minutes <= app.prediction.confidence_high
        /\ app.prediction.patients_ahead = 0 => app.prediction.predicted_minutes > 0

\* a prediction for a patient with nobody ahead, with a band wider than a point
C23_Witness ==
    /\ app.prediction.patients_ahead = 0
    /\ app.prediction.confidence_low < app.prediction.predicted_minutes
    /\ app.prediction.predicted_minutes < app.prediction.confidence_high

\* ------------------------------------------------------- the admin page
MaxRequests == 2              \* generateDailyInsights calls of the tab in flight
ErrorMessages == {"Quota exceeded", "Failed to generate daily insights"}

\* disabled of the Generate AI Summary button
GenerateDisabled(admin) == ~ admin.stats \/ admin.insightLoading

\* the labels of the buttons AdminPage renders
AdminButtons(admin) ==
    {IF admin.loadingStats THEN "Refreshing..." ELSE "Refresh KPI",
     IF admin.insightLoading THEN "Generating..." ELSE "Generate AI Summary",
     "Search", "Create User"}

\* Refresh KPI: loadStats up to its await
LoadStats ==
    /\ app.path = "/admin"
    /\ ~ app.admin.loadingStats
    /\ app' = [app EXCEPT !.admin.loadingStats = TRUE, !.admin.error = ""]
    /\ UNCHANGED <<day, appointments, queue_entries, notifications, enq, pat, doc>>

\* getDashboardStats resolves: setStats(data), finally setLoadingStats(false)
LoadStatsArrives ==
    /\ app.path = "/admin"
    /\ app.admin.loadingStats
    /\ app' = [app EXCEPT !.admin.stats = TRUE, !.admin.loadingStats = FALSE]
    /\ UNCHANGED <<day, appointments, queue_entries, notifications, enq, pat, doc>>

\* getDashboardStats rejects: the catch sets the error, stats stay
LoadStatsFails ==
    /\ app.path = "/admin"
    /\ app.admin.loadingStats
    /\ app' = [app EXCEPT !.admin.error = "Failed to load dashboard stats.",
                          !.admin.loadingStats = FALSE]
    /\ UNCHANGED <<day, appointments, queue_entries, notifications, enq, pat, doc>>

\* a generateSummary that starts whenever stats are loaded
GenerateSummaryWhileGenerating ==
    /\ app.path = "/admin"
    /\ app.admin.stats
    /\ app.admin.requests + app.orphans < MaxRequests
    /\ app' = [app EXCEPT !.admin.insightLoading = TRUE, !.admin.error = "",
                          !.admin.requests = @ + 1]
    /\ UNCHANGED <<day, appointments, queue_entries, notifications, enq, pat, doc>>

\* Generate AI Summary clicked while enabled: generateSummary up to its await
GenerateSummary ==
    /\ app.path = "/admin"
    /\ ~ GenerateDisabled(app.admin)
    /\ app.admin.stats
    /\ app.admin.requests + app.orphans < MaxRequests
    /\ app' = [app EXCEPT !.admin.insightLoading = TRUE, !.admin.error = "",
                          !.admin.requests = @ + 1]
    /\ UNCHANGED <<day, appointments, queue_entries, notifications, enq, pat, doc>>

\* generateDailyInsights resolves: setInsightText, finally
\* setInsightLoading(false)
GenerateArrives ==
    /\ app.admin.requests > 0
    /\ app' = [app EXCEPT !.admin.insightText = "summary",
                          !.admin.insightLoading = FALSE,
                          !.admin.requests = @ - 1]
    /\ UNCHANGED <<day, appointments, queue_entries, notifications, enq, pat, doc>>

\* generateDailyInsights rejects with Error(message): the catch binds no
\* error and sets a fixed text, finally setInsightLoading(false)
GenerateFails(message) ==
    /\ app.admin.requests > 0
    /\ app' = [app EXCEPT !.admin.error = "Could not generate AI insight.",
                          !.admin.thrown = message,
                          !.admin.insightLoading = FALSE,
                          !.admin.requests = @ - 1]
    /\ UNCHANGED <<day, appointments, queue_entries, notifications, enq, pat, doc>>

\* a request of a page already left settles: no page state is set
OrphanSettles ==
    /\ app.orphans > 0
    /\ app' = [app EXCEPT !.orphans = @ - 1]
    /\ UNCHANGED <<day, appointments, queue_entries, notifications, enq, pat, doc>>

AdminNext ==
    \/ LoadStats
    \/ LoadStatsArrives
    \/ LoadStatsFails
    \/ GenerateSummary
    \/ GenerateArrives
    \/ \E message \in ErrorMessages : GenerateFails(message)
    \/ OrphanSettles

\* ------------------------------------------------------ the role guard
\* a tab that picks roles, toggles demo mode, enters, goes home, is reloaded
\* on any url of the app, and uses the admin page
NextApp == NavigationNext \/ AdminNext
SpecApp == Init /\ [][NextApp]_vars

\* C24: in demo mode the tab shows a role page only while the current role is
\* the role of that page; any other request of the page ends on the landing
\* page.
C24_RolePageOnlyForItsRole ==
    (app.demoMode /\ app.path # "/") => app.role = ExpectedRole(app.path)

\* a tab in demo mode on the admin page, entered with the admin role
C24_Witness ==
    /\ app.demoMode
    /\ app.path = "/admin"
    /\ app.role = "admin"
    /\ app.storedDemo = "true"

\* -------------------------------------------------- the summary generation
\* C25 as stated: the tab never has two generateDailyInsights calls in flight.
C25_OneGenerationInFlight ==
    app.admin.requests + app.orphans <= 1

\* C25: an admin page never has two of its generateDailyInsights calls in
\* flight; while one is in flight the page is in the generating state; and
\* the Generate AI Summary button is enabled only when stats of a successful
\* load are held and no call of the page is in flight.
C25_OneGenerationPerPage ==
    /\ app.admin.requests <= 1
    /\ app.admin.requests = 1 => app.admin.insightLoading
    /\ app.admin.stats => app.path = "/admin"
    /\ ~ GenerateDisabled(app.admin) => app.admin.stats /\ app.admin.requests = 0

\* the page holds stats and has a generation in flight: the button is disabled
C25_Witness ==
    /\ app.path = "/admin"
    /\ app.admin.stats
    /\ app.admin.requests = 1
    /\ GenerateDisabled(app.admin)

\* C26: when a generation of the page fails, the page is no longer in the
\* generating state, the error it shows is the message of the thrown error,
\* and a Retry button is rendered.
C26_FailureShowsThrownMessage ==
    [][(\E message \in ErrorMessages : GenerateFails(message)) =>
          /\ ~ app'.admin.insightLoading
          /\ app'.admin.error = app'.admin.thrown
          /\ "Retry" \in AdminButtons(app'.admin)]_vars

\* ------------------------------------------------------ marking in room
\* one patient joining the demo doctor's queue; one doctor page that calls
\* next and marks rows in room, with any awaited call failing
NextInRoom ==
    \/ EnqueueNext({"P1"}, {DEMO_DOCTOR_ID}, MaxEntries)
    \/ ReloadOnNotice("S1")
    \/ CallNext("S1")
    \/ CallNextAppointment("S1")
    \/ CallNextNotify("S1")
    \/ \E k \in 1..MaxEntries : MarkInRoom("S1", k)
    \/ Reload("S1")
    \/ DoctorStoreError("S1")
SpecInRoom == Init /\ [][NextInRoom]_vars

\* C27: a step that moves an entry from called to in_room changes nothing of
\* that entry but its status, changes no other entry, no appointment (an
\* appointment in_consult stays in_consult) and adds no notification; and
\* the rest of the handler, the reload, writes nothing to the store.
C27_InRoomChangesOnlyEntry ==
    [][/\ \A q \in Ids(queue_entries) :
             (queue_entries[q].status = "called" /\ queue_entries'[q].status = "in_room")
                 => /\ queue_entries' = [queue_entries EXCEPT ![q].status = "in_room"]
                    /\ appointments' = appointments
                    /\ notifications' = notifications
       /\ (doc["S1"].pc = "reload" /\ doc'["S1"].pc = "idle")
             => /\ queue_entries' = queue_entries
                /\ appointments' = appointments
                /\ notifications' = notifications]_vars

\* the called entry was marked in room and the page has reloaded: the
\* appointment is still in_consult and the one notification is the call's
C27_Witness ==
    /\ doc["S1"].pc = "idle"
    /\ \E k \in DOMAIN doc["S1"].queue : doc["S1"].queue[k].status = "in_room"
    /\ \E q \in Ids(queue_entries) :
          /\ queue_entries[q].status = "in_room"
          /\ appointments[queue_entries[q].appointment_id].status = "in_consult"
          /\ \A n \in Ids(notifications) :
                notifications[n].queue_entry_id = q => notifications[n].type = "called"
          /\ \E n \in Ids(notifications) : notifications[n].queue_entry_id = q

\* ------------------------------------------------- switching the doctor id
\* C28: once no queue load of a doctor page is outstanding, every row the page
\* shows, and so the row Call Next would act on, belongs to the doctor whose
\* id the page holds.
C28_ShownRowsOfCurrentDoctor ==
    \A s \in Sessions :
        (doc[s].doctorId # NoDoctor /\ doc[s].loads = {})
            => /\ \A k \in DOMAIN doc[s].queue :
                     queue_entries[doc[s].queue[k].id].doctor_id = doc[s].doctorId
               /\ NextWaiting(doc[s].queue).id # NULL
                     => queue_entries[NextWaiting(doc[s].queue).id].doctor_id
                            = doc[s].doctorId

\* ------------------------------------------- near turn and the entry status
\* one patient joining the demo doctor's queue, the patient's page evaluating
\* the threshold, and one doctor page calling next
NextNearTurn ==
    \/ EnqueueNext({"P1"}, {DEMO_DOCTOR_ID}, MaxEntries)
    \/ PatientNext({"P1"})
    \/ ReloadOnNotice("S1")
    \/ CallNext("S1")
    \/ CallNextAppointment("S1")
    \/ CallNextNotify("S1")
    \/ Reload("S1")
SpecNearTurn == Init /\ [][NextNearTurn]_vars

\* C29: a step that creates a near_turn notification is taken for an entry the
\* page's evaluation read in status waiting.
C29_NearTurnOnlyWhileWaiting ==
    [][\A p \in Patients :
          NotifyNearTurn(p) => pat[p].activeQueue.status = "waiting"]_vars

\* ------------------------------------------ the two people-ahead operations
\* C30: for every entry of the store, getPeopleAhead returns what
\* countPeopleAhead returns.
C30_PeopleAheadOperationsAgree ==
    \A q \in Ids(queue_entries) :
        GetPeopleAhead(queue_entries[q]) = CountPeopleAhead(queue_entries[q])
====
